---- MODULE Spec2Model ----
(***************************************************************************)
(* A model of the chat service (src/src/chat/chat.service.ts) and of the   *)
(* appointments service (src/unnamed/part_002) of MyPetSync.               *)
(*                                                                         *)
(* The document store is the only shared state.  Every request is a        *)
(* process that moves from one await to the next; one step of a process    *)
(* is one store operation together with the synchronous code around it.    *)
(***************************************************************************)
EXTENDS Integers, Sequences, FiniteSets, TLC

(***************************************************************************)
(* Bounds of the model.                                                    *)
(***************************************************************************)
MaxRooms == 3
MaxMessages == 2
MaxClock == 1
MaxAppointments == 2
MaxStrLen == 3

\* The requests in flight: two callers, each a logged-in user.
Requests == {"r1", "r2"}
UserOf(p) == IF p = "r1" THEN "u1" ELSE "u2"

(***************************************************************************)
(* Values.                                                                 *)
(***************************************************************************)
Undefined == "undefined"

\* The user-id lists handed to getOrCreateRoomForParticipants.
ResolveInputs == {<<"u1", "u2">>, <<"u2", "u1">>, <<"u1", "u3">>}
\* The participant lists handed to createRoom.
CreateRoomInputs == {<<"u1", "u2">>, <<"u1", "u2", "u3">>}

\* A room id as a request carries it: a string that is or is not a well-formed
\* ObjectId; n is the document it names when it is well-formed.  The ids
\* tried: every room there is, one that names no room, and a malformed one.
RoomIdInputs(rs) ==
  [wellFormed : {TRUE}, n : 1..(Len(rs) + 1)] \cup [wellFormed : {FALSE}, n : {1}]

VARIABLES
  rooms,      \* the chatrooms collection, in natural (insertion) order
  messages,   \* the messages collection, in insertion order
  clock,      \* the wall clock new Date() reads
  pc,         \* pc[p]: where request p stands
  call,       \* call[p]: the arguments of the call p runs
  local,      \* local[p]: the handler's local variables
  ret,        \* ret[p]: what the last finished call of caller p returned
  appointments, \* the appointments collection: _id -> document
  lastId,     \* how many appointment ids have been handed out
  page,       \* the last appointment listing: the query and its envelope
  world       \* which links the pet, tutor and provider directories hold

vars ==
  <<rooms, messages, clock, pc, call, local, ret, appointments, lastId, page, world>>
apptVars == <<appointments, lastId, page, world>>

Range(s) == {s[i] : i \in DOMAIN s}
Min(S) == CHOOSE x \in S : \A y \in S : x <= y

NoCall == [op |-> "none"]
NoLocal == [room |-> 0, message |-> 0, stamp |-> 0]
NoRet == [op |-> "none"]

(***************************************************************************)
(* ChatService helpers.                                                    *)
(***************************************************************************)
\* Types.ObjectId.isValid
ObjectIdIsValid(id) == id.wellFormed

\* A room's name is a template string: the sequence of its parts.  NoName is
\* the name argument left out.
NoName == <<>>

\* name ?? 'Atendimento'
RoomName(name) == IF name = NoName THEN <<"Atendimento">> ELSE name

\* chatRoomModel.create({name, participants}): isActive defaults to true and
\* the timestamps are set to now.
NewRoom(name, participants, now) ==
  [name |-> RoomName(name), participants |-> participants,
   isActive |-> TRUE, updatedAt |-> now]

\* { participants: { $all: ids }, isActive: true }
MatchesAll(room, ids) ==
  /\ room.isActive
  /\ ids # <<>>
  /\ Range(ids) \subseteq Range(room.participants)

\* chatRoomModel.findOne(filter): the first match in natural order, 0 for null.
FindOneRoom(rs, ids) ==
  LET hits == {i \in DOMAIN rs : MatchesAll(rs[i], ids)}
  IN  IF hits = {} THEN 0 ELSE Min(hits)

\* chatRoomModel.findById(id): 0 for null.
FindRoomById(rs, id) == IF id.n \in DOMAIN rs THEN id.n ELSE 0

\* messageModel.find({roomId}).sort({createdAt: 1}): the ids of the room's
\* messages, oldest first (insertion order breaks ties).
RECURSIVE SortByCreatedAt(_, _)
SortByCreatedAt(ms, S) ==
  IF S = {} THEN <<>>
  ELSE LET m == CHOOSE x \in S :
                  \A y \in S : \/ ms[x].createdAt < ms[y].createdAt
                               \/ (ms[x].createdAt = ms[y].createdAt /\ x <= y)
       IN  <<m>> \o SortByCreatedAt(ms, S \ {m})

MessagesOfRoom(ms, id) ==
  SortByCreatedAt(ms, {i \in DOMAIN ms : ms[i].roomId = id.n})

(***************************************************************************)
(* A request p finishes: it returns r and is free to run the next call.    *)
(***************************************************************************)
Finish(p, r) ==
  /\ pc' = [pc EXCEPT ![p] = "idle"]
  /\ call' = [call EXCEPT ![p] = NoCall]
  /\ local' = [local EXCEPT ![p] = NoLocal]
  /\ ret' = [ret EXCEPT ![p] = r]

Goto(p, label) ==
  /\ pc' = [pc EXCEPT ![p] = label]

\* Caller p issues call c: the answer to its previous call is consumed.
Issue(p, c, label) ==
  /\ pc[p] = "idle"
  /\ call' = [call EXCEPT ![p] = c]
  /\ ret' = [ret EXCEPT ![p] = NoRet]
  /\ Goto(p, label)

(***************************************************************************)
(* ChatService.createRoom                                                  *)
(***************************************************************************)
CreateRoomCall(p) ==
  /\ \E ids \in CreateRoomInputs :
       Issue(p, [op |-> "createRoom", userIds |-> ids, name |-> NoName], "cr_create")
  /\ UNCHANGED <<rooms, messages, clock, local>>
  /\ UNCHANGED apptVars

CreateRoomCreate(p) ==
  /\ pc[p] = "cr_create"
  /\ Len(rooms) < MaxRooms
  /\ rooms' = Append(rooms, NewRoom(call[p].name, call[p].userIds, clock))
  /\ Finish(p, [op |-> "createRoom", status |-> "ok", room |-> Len(rooms) + 1])
  /\ UNCHANGED <<messages, clock>>
  /\ UNCHANGED apptVars

(***************************************************************************)
(* ChatService.getOrCreateRoomForParticipants                              *)
(***************************************************************************)
\* What the caller gets back: the room, whether this call created it, and
\* what the caller had in hand when it called.
Resolved(p, room, created) ==
  [op |-> "getOrCreate", status |-> "ok", userIds |-> call[p].userIds,
   room |-> room, created |-> created, prevRoom |-> call[p].prevRoom]

\* prevRoom is the room the caller got from the call it made just before,
\* when that call resolved the same ids; 0 otherwise.
ResolveCall(p) ==
  /\ \E ids \in ResolveInputs :
       Issue(p, [op |-> "getOrCreate", userIds |-> ids, name |-> NoName,
                 prevRoom |-> IF ret[p].op = "getOrCreate" /\ ret[p].userIds = ids
                              THEN ret[p].room ELSE 0], "goc_find")
  /\ UNCHANGED <<rooms, messages, clock, local>>
  /\ UNCHANGED apptVars

\* The room the findOne of line 70 hands to line 75.
ExistingRoom(rs, ids) == FindOneRoom(rs, ids)

ResolveFind(p) ==
  /\ pc[p] = "goc_find"
  /\ LET existingRoom == ExistingRoom(rooms, call[p].userIds)
     IN  IF existingRoom # 0
         THEN Finish(p, Resolved(p, existingRoom, FALSE))
         ELSE /\ Goto(p, "goc_create")
              /\ UNCHANGED <<call, local, ret>>
  /\ UNCHANGED <<rooms, messages, clock>>
  /\ UNCHANGED apptVars

ResolveCreate(p) ==
  /\ pc[p] = "goc_create"
  /\ Len(rooms) < MaxRooms
  /\ rooms' = Append(rooms, NewRoom(call[p].name, call[p].userIds, clock))
  /\ Finish(p, Resolved(p, Len(rooms) + 1, TRUE))
  /\ UNCHANGED <<messages, clock>>
  /\ UNCHANGED apptVars

(***************************************************************************)
(* ChatService.sendMessage                                                 *)
(***************************************************************************)
NotFound(op, id) == [op |-> op, status |-> "NotFound", roomId |-> id]

SendMessageCall(p) ==
  /\ \E id \in RoomIdInputs(rooms) :
       Issue(p, [op |-> "sendMessage", roomId |-> id, senderId |-> UserOf(p)], "sm_start")
  /\ UNCHANGED <<rooms, messages, clock, local>>
  /\ UNCHANGED apptVars

\* A sendMessage that hands any id to findById, which casts what it can.
SendMessageStartUnchecked(p) ==
  /\ pc[p] = "sm_start"
  /\ Goto(p, "sm_find")
  /\ UNCHANGED <<rooms, messages, clock, call, local, ret>>
  /\ UNCHANGED apptVars

\* Lines 119-122: the id check, then the findById is issued.
SendMessageStart(p) ==
  /\ pc[p] = "sm_start"
  /\ IF ~ObjectIdIsValid(call[p].roomId)
     THEN Finish(p, NotFound("sendMessage", call[p].roomId))
     ELSE /\ Goto(p, "sm_find")
          /\ UNCHANGED <<call, local, ret>>
  /\ UNCHANGED <<rooms, messages, clock>>
  /\ UNCHANGED apptVars

\* A sendMessage that bumps the room as soon as it has found it, before the
\* message is inserted.
SendMessageFindAndBump(p) ==
  /\ pc[p] = "sm_find"
  /\ LET room == FindRoomById(rooms, call[p].roomId)
     IN  IF room = 0
         THEN /\ Finish(p, NotFound("sendMessage", call[p].roomId))
              /\ rooms' = rooms
         ELSE /\ Goto(p, "sm_insert")
              /\ local' = [local EXCEPT ![p].room = room]
              /\ rooms' = [rooms EXCEPT ![room].updatedAt = clock]
              /\ UNCHANGED <<call, ret>>
  /\ UNCHANGED <<messages, clock>>
  /\ UNCHANGED apptVars

\* Lines 122-123: the findById answers.
SendMessageFind(p) ==
  /\ pc[p] = "sm_find"
  /\ LET room == FindRoomById(rooms, call[p].roomId)
     IN  IF room = 0
         THEN Finish(p, NotFound("sendMessage", call[p].roomId))
         ELSE /\ Goto(p, "sm_insert")
              /\ local' = [local EXCEPT ![p].room = room]
              /\ UNCHANGED <<call, ret>>
  /\ UNCHANGED <<rooms, messages, clock>>
  /\ UNCHANGED apptVars

\* Lines 125-131: the message is inserted; when the insert has answered the
\* handler reads the clock for the room's updatedAt.
SendMessageInsert(p) ==
  /\ pc[p] = "sm_insert"
  /\ Len(messages) < MaxMessages
  /\ messages' = Append(messages, [roomId |-> local[p].room,
                                   senderId |-> call[p].senderId,
                                   createdAt |-> clock])
  /\ local' = [local EXCEPT ![p].message = Len(messages) + 1, ![p].stamp = clock]
  /\ Goto(p, "sm_save")
  /\ UNCHANGED <<rooms, clock, call, ret>>
  /\ UNCHANGED apptVars

\* Line 132: room.save() writes updatedAt, or fails (the request stops here:
\* a storage error, a crash) and leaves the room as it was.
SendMessageSave(p) ==
  /\ pc[p] = "sm_save"
  /\ \/ /\ rooms' = [rooms EXCEPT ![local[p].room].updatedAt = local[p].stamp]
        /\ Finish(p, [op |-> "sendMessage", status |-> "ok",
                       roomId |-> call[p].roomId, message |-> local[p].message])
     \/ /\ rooms' = rooms
        /\ Finish(p, [op |-> "sendMessage", status |-> "failed",
                       roomId |-> call[p].roomId, message |-> local[p].message])
  /\ UNCHANGED <<messages, clock>>
  /\ UNCHANGED apptVars

(***************************************************************************)
(* ChatService.getMessages                                                 *)
(***************************************************************************)
GetMessagesCall(p) ==
  /\ \E id \in RoomIdInputs(rooms) :
       Issue(p, [op |-> "getMessages", roomId |-> id], "gm_start")
  /\ UNCHANGED <<rooms, messages, clock, local>>
  /\ UNCHANGED apptVars

GetMessagesStart(p) ==
  /\ pc[p] = "gm_start"
  /\ IF ~ObjectIdIsValid(call[p].roomId)
     THEN Finish(p, [op |-> "getMessages", status |-> "ok",
                     roomId |-> call[p].roomId, list |-> <<>>])
     ELSE /\ Goto(p, "gm_find")
          /\ UNCHANGED <<call, local, ret>>
  /\ UNCHANGED <<rooms, messages, clock>>
  /\ UNCHANGED apptVars

GetMessagesFind(p) ==
  /\ pc[p] = "gm_find"
  /\ Finish(p, [op |-> "getMessages", status |-> "ok", roomId |-> call[p].roomId,
                list |-> MessagesOfRoom(messages, call[p].roomId)])
  /\ UNCHANGED <<rooms, messages, clock>>
  /\ UNCHANGED apptVars

(***************************************************************************)
(* Time passes.                                                            *)
(***************************************************************************)
Tick ==
  /\ clock < MaxClock
  /\ clock' = clock + 1
  /\ UNCHANGED <<rooms, messages, pc, call, local, ret>>
  /\ UNCHANGED apptVars

(***************************************************************************)
(* The directories the appointments service reads: pets, their tutors and  *)
(* the providers.  Nothing in these services writes them.                  *)
(***************************************************************************)
Null == "null"

\* The directories hold one pet, its tutor and one provider; the world says
\* which of their links is missing.
Worlds == {"linked", "noTutor", "noTutorUser", "noProviderUser"}

Pets ==
  [p1 |-> [nome |-> "Rex",
           tutorId |-> IF world = "noTutor" THEN Undefined ELSE "t1"]]
Tutors == [t1 |-> [userId |-> IF world = "noTutorUser" THEN Undefined ELSE "u1"]]
Providers == [v1 |-> [userId |-> IF world = "noProviderUser" THEN Undefined ELSE "u2"]]

\* What a lookup that finds nothing leaves behind.
NoPet == [nome |-> Undefined, tutorId |-> Undefined]
NoProvider == [userId |-> Undefined]

\* The ids requests carry: every record's, and one that names no record.
PetIdInputs == DOMAIN Pets \cup {"p0"}
ProviderIdInputs == DOMAIN Providers \cup {"v0"}

\* new Date(dto.dateTime): hours since 2026-11-02T00:00 local time.
ParseDate(s) ==
  CASE s = "2026-11-02T09:00" -> 9
    [] s = "2026-11-03T09:00" -> 33
    [] OTHER -> 0

\* The body of a create request, but for its pet and provider.
CreateBody ==
  [dateTime |-> "2026-11-02T09:00", duration |-> 30, reason |-> "vaccine",
   notes |-> "none", location |-> "clinic", price |-> 100, email |-> "a@b.c",
   phone |-> "555", service |-> "s1", status |-> "pending"]

CreateInputs ==
  {[f \in DOMAIN CreateBody \cup {"pet", "provider"} |->
      IF f = "pet" THEN ids[1] ELSE IF f = "provider" THEN ids[2] ELSE CreateBody[f]]
   : ids \in PetIdInputs \X ProviderIdInputs}

\* The patches update is called with.
UpdateInputs ==
  {[status |-> "cancelled"], [pet |-> "p0"], [provider |-> "v0"],
   [pet |-> "p1", price |-> 150]}

\* What updateAppointmentStatus is called with.
StatusInputs == {[status |-> "confirmed"]}

\* The appointment ids tried: every id handed out so far and one never used.
AppointmentIdInputs == 1..(lastId + 1)

(***************************************************************************)
(* AppointmentsService helpers.                                            *)
(***************************************************************************)
\* petModel.exists({_id}) / providerModel.exists({_id})
PetExists(id) == id \in DOMAIN Pets
ProviderExists(id) == id \in DOMAIN Providers

\* model.create({...dto, pet, provider, dateTime}): the document stored; the
\* rated flag starts false.
NewAppointment(dto) ==
  [f \in DOMAIN dto \cup {"isRated"} |->
     IF f = "isRated" THEN FALSE
     ELSE IF f = "dateTime" THEN ParseDate(dto.dateTime)
     ELSE dto[f]]

\* tutor?.userId?.toString()
TutorUserId(tutorId) ==
  IF tutorId \in DOMAIN Tutors THEN Tutors[tutorId].userId ELSE Undefined

\* A guard that asks for either user id where the code asks for both.
ShouldProvisionEither(providerUserId, tutorUserId) ==
  providerUserId # Undefined \/ tutorUserId # Undefined

\* provider?.userId && tutorUserId
ShouldProvision(providerUserId, tutorUserId) ==
  providerUserId # Undefined /\ tutorUserId # Undefined

\* `Atendimento - ${pet?.nome ?? 'Pet'}`
AppointmentRoomName(pet) ==
  <<"Atendimento - ", IF pet.nome = Undefined THEN "Pet" ELSE pet.nome>>

\* Lines 349-367: the $set payload of update, built from the fields the patch
\* carries.
UpdatableFields ==
  {"dateTime", "duration", "reason", "location", "price", "status", "notes",
   "email", "phone", "pet", "provider", "service"}

BuildPayload(dto) ==
  [f \in DOMAIN dto \cap UpdatableFields |->
     IF f = "dateTime" THEN ParseDate(dto.dateTime) ELSE dto[f]]

\* An update that replaces the document: the price and the notes the payload
\* does not carry are cleared.
ApplyReplacing(doc, payload) ==
  [f \in DOMAIN doc \cup DOMAIN payload |->
     IF f \in DOMAIN payload THEN payload[f]
     ELSE IF f = "price" THEN 0
     ELSE IF f = "notes" THEN ""
     ELSE doc[f]]

\* { $set: payload } applied to a document.
ApplySet(doc, payload) ==
  [f \in DOMAIN doc \cup DOMAIN payload |->
     IF f \in DOMAIN payload THEN payload[f] ELSE doc[f]]

\* The store with document id written / deleted.
WithDocument(store, id, doc) ==
  [i \in DOMAIN store \cup {id} |-> IF i = id THEN doc ELSE store[i]]
WithoutDocument(store, id) ==
  [i \in DOMAIN store \ {id} |-> store[i]]

ApptNotFound(op, id, message) ==
  [op |-> op, status |-> "NotFound", id |-> id, message |-> message]

(***************************************************************************)
(* AppointmentsService.create                                              *)
(***************************************************************************)
CreateCall(p) ==
  /\ \E dto \in CreateInputs :
       Issue(p, [op |-> "create", dto |-> dto], "ac_assertPet")
  /\ UNCHANGED <<rooms, messages, clock, local, apptVars>>

\* Line 74.
CreateAssertPet(p) ==
  /\ pc[p] = "ac_assertPet"
  /\ IF PetExists(call[p].dto.pet)
     THEN /\ Goto(p, "ac_assertProvider")
          /\ UNCHANGED <<call, local, ret>>
     ELSE Finish(p, ApptNotFound("create", 0, "Pet nao encontrado."))
  /\ UNCHANGED <<rooms, messages, clock, apptVars>>

\* Line 75.
CreateAssertProvider(p) ==
  /\ pc[p] = "ac_assertProvider"
  /\ IF ProviderExists(call[p].dto.provider)
     THEN /\ Goto(p, "ac_insert")
          /\ UNCHANGED <<call, local, ret>>
     ELSE Finish(p, ApptNotFound("create", 0, "Prestador nao encontrado."))
  /\ UNCHANGED <<rooms, messages, clock, apptVars>>

\* Lines 77-82: the appointment is written.
CreateInsert(p) ==
  /\ pc[p] = "ac_insert"
  /\ lastId < MaxAppointments
  /\ lastId' = lastId + 1
  /\ appointments' = WithDocument(appointments, lastId + 1, NewAppointment(call[p].dto))
  /\ local' = [local EXCEPT ![p] = [created |-> lastId + 1,
                                    document |-> NewAppointment(call[p].dto),
                                    pet |-> NoPet, provider |-> NoProvider,
                                    tutorUserId |-> Undefined]]
  /\ Goto(p, "ac_findPet")
  /\ UNCHANGED <<rooms, messages, clock, call, ret, page, world>>

\* Line 119: created.toObject().
Created(p) ==
  [op |-> "create", status |-> "ok", id |-> local[p].created,
   appointment |-> local[p].document]

\* A create with no catch: what the try block threw reaches the caller.
CreateThrows(p) == Finish(p, [op |-> "create", status |-> "error"])

\* Lines 111-119: whatever the try block threw is logged and dropped.
CreateCaught(p) == Finish(p, Created(p))

\* Lines 86-89: the pet is read, or the read throws.
CreateFindPet(p) ==
  /\ pc[p] = "ac_findPet"
  /\ \/ /\ local' = [local EXCEPT ![p].pet = Pets[call[p].dto.pet]]
        /\ Goto(p, "ac_findProvider")
        /\ UNCHANGED <<call, ret>>
     \/ CreateCaught(p)
  /\ UNCHANGED <<rooms, messages, clock, apptVars>>

\* Lines 92-99: the provider is read, or the read throws; a pet without a
\* tutor leaves tutorUserId undefined and line 105 skips the room.
CreateFindProvider(p) ==
  /\ pc[p] = "ac_findProvider"
  /\ \/ IF local[p].pet.tutorId # Undefined
        THEN /\ local' = [local EXCEPT ![p].provider = Providers[call[p].dto.provider]]
             /\ Goto(p, "ac_findTutor")
             /\ UNCHANGED <<call, ret>>
        ELSE Finish(p, Created(p))
     \/ CreateCaught(p)
  /\ UNCHANGED <<rooms, messages, clock, apptVars>>

\* Lines 100-105: the tutor is read, or the read throws; the room is
\* resolved only when both user ids are there.
CreateFindTutor(p) ==
  /\ pc[p] = "ac_findTutor"
  /\ \/ LET tutorUserId == TutorUserId(local[p].pet.tutorId)
        IN  IF ShouldProvision(local[p].provider.userId, tutorUserId)
            THEN /\ local' = [local EXCEPT ![p].tutorUserId = tutorUserId]
                 /\ Goto(p, "ac_roomFind")
                 /\ UNCHANGED <<call, ret>>
            ELSE Finish(p, Created(p))
     \/ CreateCaught(p)
  /\ UNCHANGED <<rooms, messages, clock, apptVars>>

\* Line 107: [provider.userId.toString(), tutorUserId]
RoomParticipants(p) == <<local[p].provider.userId, local[p].tutorUserId>>

\* Lines 106-109, chat.service.ts 70-75: the findOne of
\* getOrCreateRoomForParticipants answers, or throws.
CreateRoomFind(p) ==
  /\ pc[p] = "ac_roomFind"
  /\ \/ IF ExistingRoom(rooms, RoomParticipants(p)) # 0
        THEN Finish(p, Created(p))
        ELSE /\ Goto(p, "ac_roomCreate")
             /\ UNCHANGED <<call, local, ret>>
     \/ CreateCaught(p)
  /\ UNCHANGED <<rooms, messages, clock, apptVars>>

\* chat.service.ts 77-82: the room is created, or the create throws.
CreateRoomInsert(p) ==
  /\ pc[p] = "ac_roomCreate"
  /\ \/ /\ Len(rooms) < MaxRooms
        /\ rooms' = Append(rooms, NewRoom(AppointmentRoomName(local[p].pet),
                                          RoomParticipants(p), clock))
        /\ Finish(p, Created(p))
     \/ /\ rooms' = rooms
        /\ CreateCaught(p)
  /\ UNCHANGED <<messages, clock, apptVars>>

(***************************************************************************)
(* AppointmentsService.update                                              *)
(***************************************************************************)
\* if (dto.pet) ... / if (dto.provider) ...: a field that is there and truthy.
Carries(dto, f) == f \in DOMAIN dto /\ dto[f] # "" /\ dto[f] # Null

\* An update that never checks the pet or the provider of its patch.
UpdateUnchecked(dto) == "au_update"

\* Lines 346-347: the first thing update awaits.
UpdateAfterStart(dto) ==
  IF Carries(dto, "pet") THEN "au_assertPet"
  ELSE IF Carries(dto, "provider") THEN "au_assertProvider"
  ELSE "au_update"

UpdateCall(p) ==
  /\ \E id \in AppointmentIdInputs, dto \in UpdateInputs :
       Issue(p, [op |-> "update", id |-> id, dto |-> dto], UpdateAfterStart(dto))
  /\ UNCHANGED <<rooms, messages, clock, local, apptVars>>

\* Line 346.
UpdateAssertPet(p) ==
  /\ pc[p] = "au_assertPet"
  /\ IF PetExists(call[p].dto.pet)
     THEN /\ Goto(p, IF Carries(call[p].dto, "provider")
                     THEN "au_assertProvider" ELSE "au_update")
          /\ UNCHANGED <<call, local, ret>>
     ELSE Finish(p, ApptNotFound("update", call[p].id, "Pet nao encontrado."))
  /\ UNCHANGED <<rooms, messages, clock, apptVars>>

\* Line 347.
UpdateAssertProvider(p) ==
  /\ pc[p] = "au_assertProvider"
  /\ IF ProviderExists(call[p].dto.provider)
     THEN /\ Goto(p, "au_update")
          /\ UNCHANGED <<call, local, ret>>
     ELSE Finish(p, ApptNotFound("update", call[p].id, "Prestador nao encontrado."))
  /\ UNCHANGED <<rooms, messages, clock, apptVars>>

\* Lines 349-385: findOneAndUpdate with the payload.
UpdateWrite(p) ==
  /\ pc[p] = "au_update"
  /\ IF call[p].id \in DOMAIN appointments
     THEN LET updated == ApplySet(appointments[call[p].id], BuildPayload(call[p].dto))
          IN  /\ appointments' = WithDocument(appointments, call[p].id, updated)
              /\ Finish(p, [op |-> "update", status |-> "ok", id |-> call[p].id])
     ELSE /\ appointments' = appointments
          /\ Finish(p, ApptNotFound("update", call[p].id, "Consulta nao encontrada."))
  /\ UNCHANGED <<rooms, messages, clock, lastId, page, world>>

(***************************************************************************)
(* AppointmentsService.updateAppointmentStatus                             *)
(***************************************************************************)
UpdateStatusCall(p) ==
  /\ \E id \in AppointmentIdInputs, updateData \in StatusInputs :
       Issue(p, [op |-> "updateStatus", id |-> id, dto |-> updateData], "as_update")
  /\ UNCHANGED <<rooms, messages, clock, local, apptVars>>

\* Lines 334-342: findByIdAndUpdate with { $set: updateData }.
UpdateStatusWrite(p) ==
  /\ pc[p] = "as_update"
  /\ IF call[p].id \in DOMAIN appointments
     THEN /\ appointments' = WithDocument(appointments, call[p].id,
                                          ApplySet(appointments[call[p].id], call[p].dto))
          /\ Finish(p, [op |-> "updateStatus", status |-> "ok", id |-> call[p].id])
     ELSE /\ appointments' = appointments
          /\ Finish(p, ApptNotFound("updateStatus", call[p].id,
                                    "Agendamento nao encontrado para atualizacao de status."))
  /\ UNCHANGED <<rooms, messages, clock, lastId, page, world>>

(***************************************************************************)
(* AppointmentsService.remove                                              *)
(***************************************************************************)
RemoveCall(p) ==
  /\ \E id \in AppointmentIdInputs :
       Issue(p, [op |-> "remove", id |-> id], "ar_delete")
  /\ UNCHANGED <<rooms, messages, clock, local, apptVars>>

\* Lines 389-391: findByIdAndDelete.
RemoveDelete(p) ==
  /\ pc[p] = "ar_delete"
  /\ IF call[p].id \in DOMAIN appointments
     THEN /\ appointments' = WithoutDocument(appointments, call[p].id)
          /\ Finish(p, [op |-> "remove", status |-> "ok", id |-> call[p].id])
     ELSE /\ appointments' = appointments
          /\ Finish(p, ApptNotFound("remove", call[p].id, "Consulta nao encontrada."))
  /\ UNCHANGED <<rooms, messages, clock, lastId, page, world>>

(***************************************************************************)
(* AppointmentsService.countAppointmentsForToday                           *)
(***************************************************************************)
\* Lines 276-288: now is 2026-11-02; the day's bounds in hours since its
\* midnight.
StartOfToday == 0
EndOfToday == 24

\* Lines 292-297.
DateFilter(doc) == doc.dateTime >= StartOfToday /\ doc.dateTime < EndOfToday

\* Lines 299-303.
TotalFilter(doc, providerId) ==
  /\ doc.provider = providerId
  /\ DateFilter(doc)
  /\ doc.status \notin {"cancelled", "completed"}

\* Lines 305-309.
ConfirmedFilter(doc, providerId) ==
  /\ doc.provider = providerId
  /\ DateFilter(doc)
  /\ doc.status = "confirmed"

\* model.countDocuments(filter): one read of the store, answering how many
\* of its documents are among those the filter matches.
CountDocuments(store, matching) ==
  Cardinality({i \in DOMAIN store : store[i] \in matching})

CountCall(p) ==
  /\ \E providerId \in ProviderIdInputs :
       Issue(p, [op |-> "countToday", provider |-> providerId], "ac_counts")
  /\ local' = [local EXCEPT ![p] = [total |-> 0, confirmed |-> 0, done |-> {}]]
  /\ UNCHANGED <<rooms, messages, clock, apptVars>>

\* A read of Promise.all's two is answered; the store answers them one at a
\* time, in either order.
CountAnswered(p, which, n) ==
  /\ local' = [local EXCEPT ![p] = [local[p] EXCEPT ![which] = n,
                                                     !.done = @ \cup {which}]]
  /\ Goto(p, IF local[p].done \cup {which} = {"total", "confirmed"}
             THEN "ac_counted" ELSE "ac_counts")
  /\ UNCHANGED <<rooms, messages, clock, call, ret, apptVars>>

\* Line 312.
CountTotal(p) ==
  /\ pc[p] = "ac_counts"
  /\ "total" \notin local[p].done
  /\ CountAnswered(p, "total",
       CountDocuments(appointments,
         {doc \in Range(appointments) : TotalFilter(doc, call[p].provider)}))

\* Line 313.
CountConfirmed(p) ==
  /\ pc[p] = "ac_counts"
  /\ "confirmed" \notin local[p].done
  /\ CountAnswered(p, "confirmed",
       CountDocuments(appointments,
         {doc \in Range(appointments) : ConfirmedFilter(doc, call[p].provider)}))

\* Line 316.
CountReturn(p) ==
  /\ pc[p] = "ac_counted"
  /\ Finish(p, [op |-> "countToday", status |-> "ok", provider |-> call[p].provider,
                total |-> local[p].total, confirmed |-> local[p].confirmed])
  /\ UNCHANGED <<rooms, messages, clock, apptVars>>

(***************************************************************************)
(* Appointment listings: findAll, findAllByTutorId, findAllByProviderUser  *)
(***************************************************************************)
\* A query-string value is a string, here the sequence of its characters, or
\* is absent.
Absent == <<"undefined">>
Chars == {"-", "0", "1"}

RECURSIVE StringsOfLen(_)
StringsOfLen(n) ==
  IF n = 0 THEN {<<>>}
  ELSE {Append(t, c) : t \in StringsOfLen(n - 1), c \in Chars}

QueryStrings == UNION {StringsOfLen(n) : n \in 0..MaxStrLen} \cup {Absent}

\* The listings asked for carry page and limit and no other field.
QueryInputs == [page : QueryStrings, limit : QueryStrings]

\* JavaScript's NaN.
NaN == -1000000

IsDigit(c) == c \in {"0", "1", "2", "3", "4", "5", "6", "7", "8", "9"}
DigitValue(c) ==
  CASE c = "0" -> 0 [] c = "1" -> 1 [] c = "2" -> 2 [] c = "3" -> 3 [] c = "4" -> 4
    [] c = "5" -> 5 [] c = "6" -> 6 [] c = "7" -> 7 [] c = "8" -> 8 [] c = "9" -> 9

\* How many characters at the head of s are digits.
RECURSIVE DigitPrefix(_)
DigitPrefix(s) ==
  IF s = <<>> \/ ~IsDigit(Head(s)) THEN 0 ELSE 1 + DigitPrefix(Tail(s))

RECURSIVE DigitsValue(_)
DigitsValue(d) ==
  IF d = <<>> THEN 0
  ELSE 10 * DigitsValue(SubSeq(d, 1, Len(d) - 1)) + DigitValue(d[Len(d)])

\* parseInt(s, 10): an optional sign, then the digits up to the first
\* character that is none; NaN when there is no digit.
ParseInt(s) ==
  LET negative == s # <<>> /\ Head(s) = "-"
      rest == IF negative THEN Tail(s) ELSE s
      n == DigitPrefix(rest)
  IN  IF n = 0 THEN NaN
      ELSE IF negative THEN 0 - DigitsValue(SubSeq(rest, 1, n))
      ELSE DigitsValue(SubSeq(rest, 1, n))

\* Math.max / Math.min
JsMax(a, b) == IF a = NaN \/ b = NaN THEN NaN ELSE IF a >= b THEN a ELSE b
JsMin(a, b) == IF a = NaN \/ b = NaN THEN NaN ELSE IF a <= b THEN a ELSE b

\* v || d for a string v: the absent and the empty string are falsy.
OrElse(v, d) == IF v = Absent \/ v = <<>> THEN d ELSE v

\* Line 233.
PageOf(q) == JsMax(ParseInt(OrElse(q.page, <<"1">>)), 1)

\* A limit with its upper clamp left out.
LimitOfUnclamped(q) == JsMax(ParseInt(OrElse(q.limit, <<"2", "0">>)), 1)

\* Line 234.
LimitOf(q) == JsMin(JsMax(ParseInt(OrElse(q.limit, <<"2", "0">>)), 1), 100)

\* Line 235.
SkipOf(pageNo, limit) ==
  IF pageNo = NaN \/ limit = NaN THEN NaN ELSE (pageNo - 1) * limit

\* Math.ceil(total / limit) for total >= 0 and limit >= 1.
CeilDiv(total, limit) ==
  IF limit = NaN THEN NaN ELSE (total + limit - 1) \div limit

\* Lines 196-201: the filter on provider and on pets; a filter field that is
\* not set is not applied.
Unset == "unset"
Matches(doc, filter) ==
  /\ filter.provider # Unset => doc.provider = filter.provider
  /\ filter.byPets => doc.pet \in filter.pets

\* sort({dateTime: -1, createdAt: -1}): the ids of S, newest first.
RECURSIVE SortNewestFirst(_, _)
SortNewestFirst(store, S) ==
  IF S = {} THEN <<>>
  ELSE LET m == CHOOSE x \in S :
                  \A y \in S : \/ store[x].dateTime > store[y].dateTime
                               \/ (store[x].dateTime = store[y].dateTime /\ x >= y)
       IN  <<m>> \o SortNewestFirst(store, S \ {m})

\* .skip(skip).limit(limit)
Slice(seq, skip, limit) ==
  IF skip = NaN \/ limit = NaN THEN <<>>
  ELSE SubSeq(seq, skip + 1, IF skip + limit <= Len(seq) THEN skip + limit ELSE Len(seq))

\* A JavaScript value that is a number or a string.
Num(n) == [type |-> "number", n |-> n]
Str(str) == [type |-> "string", s |-> str]

\* Lines 195-271: find and countDocuments over the same filter.
FindAllResult(store, q, filter) ==
  LET pageNo == PageOf(q)
      limit == LimitOf(q)
      skip == SkipOf(pageNo, limit)
      hits == {i \in DOMAIN store : Matches(store[i], filter)}
      total == Cardinality(hits)
  IN  [skip |-> skip,
       items |-> Slice(SortNewestFirst(store, hits), skip, limit),
       total |-> total, page |-> Num(pageNo), limit |-> Num(limit),
       pages |-> CeilDiv(total, limit)]

\* petsService.findAllByTutor(tutorId): the ids of the tutor's pets.
PetsOfTutor(tutorId) == {id \in DOMAIN Pets : Pets[id].tutorId = tutorId}

\* providersService.findOneByUserId(userId): the provider's id, or Null.
ProviderOfUser(userId) ==
  IF \E id \in DOMAIN Providers : Providers[id].userId = userId
  THEN CHOOSE id \in DOMAIN Providers : Providers[id].userId = userId
  ELSE Null

\* reviewsService.findReviewedAppointments: the tutor has reviewed the first
\* appointment.
ReviewedBy(tutorId, ids) == ids \cap {1}

\* A raw query value as the empty envelopes carry it: q.x || d.
RawOrElse(v, d) == IF v = Absent \/ v = <<>> THEN Num(d) ELSE Str(v)

\* Lines 139-141: the envelope for a user without a provider profile.
NoProviderEnvelope(q) ==
  [skip |-> 0, items |-> <<>>, total |-> 0, page |-> Num(1),
   limit |-> RawOrElse(q.limit, 20), pages |-> 1]

\* Lines 153-162: the envelope for a tutor without pets.
NoPetsEnvelope(q) ==
  [skip |-> 0, items |-> <<>>, total |-> 0, page |-> RawOrElse(q.page, 1),
   limit |-> RawOrElse(q.limit, 20), pages |-> 0]

\* Lines 175-192: the items with isReviewed attached.
WithReviews(tutorId, result) ==
  LET reviewed == ReviewedBy(tutorId, Range(result.items))
  IN  [result EXCEPT !.items =
         [k \in DOMAIN result.items |->
            [id |-> result.items[k], isReviewed |-> result.items[k] \in reviewed]]]

QueryUnchanged ==
  UNCHANGED <<rooms, messages, clock, pc, call, local, ret, appointments, lastId, world>>

\* The query the listings of this run are asked with.
query == page.q

FindAll ==
  /\ page' = [op |-> "findAll", q |-> query,
              envelope |-> FindAllResult(appointments, query,
                                         [provider |-> Unset, byPets |-> FALSE, pets |-> {}])]
  /\ QueryUnchanged

FindAllByTutorId ==
  /\ \E tutorId \in {"t1", "t9"} :
       LET pets == PetsOfTutor(tutorId)
       IN  page' = [op |-> "findAllByTutorId", q |-> query,
                    envelope |->
                      IF pets = {} THEN NoPetsEnvelope(query)
                      ELSE WithReviews(tutorId,
                             FindAllResult(appointments, query,
                                           [provider |-> Unset, byPets |-> TRUE, pets |-> pets]))]
  /\ QueryUnchanged

FindAllByProviderUser ==
  /\ \E userId \in {"u1", "u2"} :
       LET provider == ProviderOfUser(userId)
       IN  page' = [op |-> "findAllByProviderUser", q |-> query,
                    envelope |->
                      IF provider = Null THEN NoProviderEnvelope(query)
                      ELSE FindAllResult(appointments, query,
                                         [provider |-> provider, byPets |-> FALSE, pets |-> {}])]
  /\ QueryUnchanged

(***************************************************************************)
(* Specifications.                                                         *)
(***************************************************************************)
InitRequests ==
  /\ world = "linked"
  /\ appointments = <<>>
  /\ lastId = 0
  /\ page = [op |-> "none"]
  /\ pc = [p \in Requests |-> "idle"]
  /\ call = [p \in Requests |-> NoCall]
  /\ local = [p \in Requests |-> NoLocal]
  /\ ret = [p \in Requests |-> NoRet]

\* Rooms the store may hold when the service starts: none, or one that was
\* deactivated by hand.
InitialRooms ==
  {<<>>,
   <<[name |-> <<"Atendimento">>, participants |-> <<"u1", "u2">>,
      isActive |-> FALSE, updatedAt |-> 0]>>}

\* Rooms: createRoom and getOrCreateRoomForParticipants, any starting rooms.
InitRooms ==
  /\ rooms \in InitialRooms
  /\ messages = <<>>
  /\ clock = 0
  /\ InitRequests

NextRooms ==
  \E p \in Requests :
    \/ CreateRoomCall(p)
    \/ CreateRoomCreate(p)
    \/ ResolveCall(p)
    \/ ResolveFind(p)
    \/ ResolveCreate(p)

SpecRooms == InitRooms /\ [][NextRooms]_vars

\* Resolution alone: every room is one getOrCreateRoomForParticipants made.
InitResolve ==
  /\ rooms = <<>>
  /\ messages = <<>>
  /\ clock = 0
  /\ InitRequests

NextResolve ==
  \E p \in Requests :
    \/ ResolveCall(p)
    \/ ResolveFind(p)
    \/ ResolveCreate(p)

SpecResolve == InitResolve /\ [][NextResolve]_vars

\* Messages: sendMessage and getMessages on the rooms created so far.
StartedRooms ==
  {<<NewRoom(NoName, <<"u1", "u2">>, 0), NewRoom(NoName, <<"u1", "u2", "u3">>, 0)>>}

InitMessages ==
  /\ rooms \in StartedRooms
  /\ messages = <<>>
  /\ clock = 0
  /\ InitRequests

NextMessages ==
  \/ Tick
  \/ \E p \in Requests :
       \/ SendMessageCall(p)
       \/ SendMessageStart(p)
       \/ SendMessageFind(p)
       \/ SendMessageInsert(p)
       \/ SendMessageSave(p)
       \/ GetMessagesCall(p)
       \/ GetMessagesStart(p)
       \/ GetMessagesFind(p)

SpecMessages == InitMessages /\ [][NextMessages]_vars

\* The appointments' lifecycle, with the chat rooms create provisions.
Init ==
  /\ world \in Worlds
  /\ rooms = <<>>
  /\ messages = <<>>
  /\ clock = 0
  /\ appointments = <<>>
  /\ lastId = 0
  /\ page = [op |-> "none"]
  /\ pc = [p \in Requests |-> "idle"]
  /\ call = [p \in Requests |-> NoCall]
  /\ local = [p \in Requests |-> NoLocal]
  /\ ret = [p \in Requests |-> NoRet]

\* One request books while the other manages the appointments there are.
Booking == {"r1"}
Managing == {"r2"}

Next ==
  \/ \E p \in Booking :
       \/ CreateCall(p)
       \/ CreateAssertPet(p)
       \/ CreateAssertProvider(p)
       \/ CreateInsert(p)
       \/ CreateFindPet(p)
       \/ CreateFindProvider(p)
       \/ CreateFindTutor(p)
       \/ CreateRoomFind(p)
       \/ CreateRoomInsert(p)
  \/ \E p \in Managing :
    \/ UpdateCall(p)
    \/ UpdateAssertPet(p)
    \/ UpdateAssertProvider(p)
    \/ UpdateWrite(p)
    \/ UpdateStatusCall(p)
    \/ UpdateStatusWrite(p)
    \/ RemoveCall(p)
    \/ RemoveDelete(p)

Spec == Init /\ [][Next]_vars

\* Listings of a store that holds up to MaxAppointments appointments, asked
\* with one query.
ListedBody(i) ==
  [f \in DOMAIN CreateBody \cup {"pet", "provider"} |->
     IF f = "pet" THEN "p1"
     ELSE IF f = "provider" THEN "v1"
     ELSE IF f = "dateTime" /\ i % 2 = 0 THEN "2026-11-03T09:00"
     ELSE CreateBody[f]]

ListedStore(n) == [i \in 1..n |-> NewAppointment(ListedBody(i))]

InitQuery ==
  /\ world = "linked"
  /\ rooms = <<>>
  /\ messages = <<>>
  /\ clock = 0
  /\ \E n \in 0..MaxAppointments :
       /\ appointments = ListedStore(n)
       /\ lastId = n
  /\ \E q \in QueryInputs : page = [op |-> "none", q |-> q]
  /\ pc = [p \in Requests |-> "idle"]
  /\ call = [p \in Requests |-> NoCall]
  /\ local = [p \in Requests |-> NoLocal]
  /\ ret = [p \in Requests |-> NoRet]

NextQuery ==
  \/ FindAll
  \/ FindAllByTutorId
  \/ FindAllByProviderUser

SpecQuery == InitQuery /\ [][NextQuery]_vars

\* A provider's dashboard counts today's appointments while another request
\* books, updates and removes appointments.  The store starts empty or with
\* one appointment of the provider in some status, today or tomorrow.
CountedStatuses == {"pending", "confirmed", "cancelled", "completed"}

CountedStores ==
  {<<>>} \cup
  {<<[NewAppointment(ListedBody(i)) EXCEPT !.status = st]>> :
     i \in {1, 2}, st \in CountedStatuses}

InitCount ==
  /\ world = "linked"
  /\ rooms = <<>>
  /\ messages = <<>>
  /\ clock = 0
  /\ appointments \in CountedStores
  /\ lastId = Len(appointments)
  /\ page = [op |-> "none"]
  /\ pc = [p \in Requests |-> "idle"]
  /\ call = [p \in Requests |-> NoCall]
  /\ local = [p \in Requests |-> NoLocal]
  /\ ret = [p \in Requests |-> NoRet]

Counting == {"r1"}
Writing == {"r2"}

NextCount ==
  \/ \E p \in Counting :
       \/ CountCall(p)
       \/ CountTotal(p)
       \/ CountConfirmed(p)
       \/ CountReturn(p)
  \/ \E p \in Writing :
       \/ CreateCall(p)
       \/ CreateAssertPet(p)
       \/ CreateAssertProvider(p)
       \/ CreateInsert(p)
       \/ CreateFindPet(p)
       \/ CreateFindProvider(p)
       \/ CreateFindTutor(p)
       \/ CreateRoomFind(p)
       \/ CreateRoomInsert(p)
       \/ UpdateCall(p)
       \/ UpdateAssertPet(p)
       \/ UpdateAssertProvider(p)
       \/ UpdateWrite(p)
       \/ UpdateStatusCall(p)
       \/ UpdateStatusWrite(p)
       \/ RemoveCall(p)
       \/ RemoveDelete(p)

SpecCount == InitCount /\ [][NextCount]_vars

(***************************************************************************)
(* Properties of the chat rooms.                                           *)
(***************************************************************************)
SameParticipants(a, b) == Range(a.participants) = Range(b.participants)

\* C1: whatever getOrCreateRoomForParticipants calls have run, concurrent
\* ones included, no two active rooms have the same participant set.
C1_NoTwoActiveRoomsShareParticipants ==
  \A i, j \in DOMAIN rooms :
    (i # j /\ rooms[i].isActive /\ rooms[j].isActive)
      => ~SameParticipants(rooms[i], rooms[j])

\* C5: a caller that resolves the same ids twice in a row, no room being
\* deactivated in between, gets the same room both times, and its second
\* call creates no room.
C5_ResolveTwiceSameRoom ==
  \A p \in Requests :
    (ret[p].op = "getOrCreate" /\ ret[p].prevRoom # 0)
      => (ret[p].room = ret[p].prevRoom /\ ~ret[p].created)

(***************************************************************************)
(* Properties of the messages.                                             *)
(***************************************************************************)
Stepped(p) == pc'[p] # pc[p] /\ pc[p] # "idle"

\* C6: sendMessage with a malformed room id, or with a well-formed id of no
\* room, ends NotFound, stores no message and changes no room; getMessages
\* with a malformed id answers the empty sequence and raises nothing.
C6_BadRoomId ==
  [][\A p \in Requests :
       Stepped(p) =>
         /\ ( /\ call[p].op = "sendMessage"
              /\ (~call[p].roomId.wellFormed \/ call[p].roomId.n \notin DOMAIN rooms) )
            => /\ rooms' = rooms
               /\ messages' = messages
               /\ pc'[p] = "idle" => ret'[p].status = "NotFound"
         /\ ( /\ call[p].op = "getMessages"
              /\ ~call[p].roomId.wellFormed )
            => /\ rooms' = rooms
               /\ messages' = messages
               /\ pc'[p] = "idle"
               /\ ret'[p].status = "ok"
               /\ ret'[p].list = <<>>
    ]_vars

\* One caller's sendMessage to a room that does not exist has ended NotFound,
\* and the other's getMessages with a malformed id has answered the empty
\* sequence although the room its digits would name holds a message.
C6_Witness ==
  \E p, q \in Requests :
    /\ ret[p].op = "sendMessage"
    /\ ret[p].status = "NotFound"
    /\ ret[p].roomId.wellFormed
    /\ ret[q].op = "getMessages"
    /\ ~ret[q].roomId.wellFormed
    /\ ret[q].list = <<>>
    /\ \E m \in DOMAIN messages : messages[m].roomId = ret[q].roomId.n

\* C10: a room's updatedAt changes only in the save of a sendMessage whose
\* own message is already stored for that room, and no stored message is
\* ever removed or altered.
C10_InsertBeforeBump ==
  [][ /\ Len(messages') >= Len(messages)
      /\ SubSeq(messages', 1, Len(messages)) = messages
      /\ \A r \in DOMAIN rooms :
           rooms'[r].updatedAt # rooms[r].updatedAt
             => \E p \in Requests :
                  /\ pc[p] = "sm_save"
                  /\ pc'[p] = "idle"
                  /\ local[p].room = r
                  /\ local[p].message \in DOMAIN messages
                  /\ messages[local[p].message].roomId = r
                  /\ messages[local[p].message].senderId = call[p].senderId
    ]_vars

\* A sendMessage stopped between its two writes: its message is stored and
\* is newer than the room's updatedAt, with no save pending.
C10_Witness ==
  \E p \in Requests :
    /\ ret[p].op = "sendMessage"
    /\ ret[p].status = "failed"
    /\ \A q \in Requests : pc[q] = "idle"
    /\ messages[ret[p].message].createdAt > rooms[messages[ret[p].message].roomId].updatedAt

(***************************************************************************)
(* Properties of the appointments' lifecycle.                              *)
(***************************************************************************)
\* The document create is to store for a request body.
Stores(doc, dto) ==
  /\ doc.pet = dto.pet
  /\ doc.provider = dto.provider
  /\ doc.dateTime = ParseDate(dto.dateTime)
  /\ \A f \in DOMAIN dto \ {"pet", "provider", "dateTime"} : doc[f] = dto[f]

RefersToRecords(dto) == dto.pet \in DOMAIN Pets /\ dto.provider \in DOMAIN Providers

\* C2: create for a pet and a provider that exist writes the appointment
\* before it writes any room, leaves the appointments alone from then on
\* whatever the provisioning does, and returns the created record, never an
\* error.
C2_CreateSurvivesProvisioning ==
  [][\A p \in Requests :
       (Stepped(p) /\ call[p].op = "create" /\ RefersToRecords(call[p].dto))
         => /\ pc[p] = "ac_insert"
                 => /\ appointments' = WithDocument(appointments, lastId + 1,
                                                    appointments'[lastId + 1])
                    /\ Stores(appointments'[lastId + 1], call[p].dto)
                    /\ rooms' = rooms
            /\ pc[p] \notin {"ac_assertPet", "ac_assertProvider", "ac_insert"}
                 => appointments' = appointments
            /\ rooms' # rooms
                 => /\ pc[p] = "ac_roomCreate"
                    /\ local[p].created \in 1..lastId
            /\ pc'[p] = "idle"
                 => /\ ret'[p].status = "ok"
                    /\ ret'[p].id = local[p].created
                    /\ Stores(ret'[p].appointment, call[p].dto)
    ]_vars

\* A create has returned its appointment although the provisioning failed:
\* every link is there, yet no room was found or made.
C2_Witness ==
  \E p \in Requests :
    /\ world = "linked"
    /\ ret[p].op = "create"
    /\ ret[p].status = "ok"
    /\ ret[p].id \in DOMAIN appointments
    /\ rooms = <<>>

MissingLink(dto) ==
  \/ Pets[dto.pet].tutorId = Undefined
  \/ Tutors[Pets[dto.pet].tutorId].userId = Undefined
  \/ Providers[dto.provider].userId = Undefined

\* C3: create for a pet without a tutor, a tutor without a user id or a
\* provider without a user id creates no room and returns the appointment
\* it created, no error.
C3_NoRoomWithoutLink ==
  [][\A p \in Requests :
       ( /\ Stepped(p)
         /\ call[p].op = "create"
         /\ RefersToRecords(call[p].dto)
         /\ MissingLink(call[p].dto) )
         => /\ rooms' = rooms
            /\ pc'[p] = "idle"
                 => /\ ret'[p].status = "ok"
                    /\ ret'[p].id = local[p].created
                    /\ Stores(ret'[p].appointment, call[p].dto)
    ]_vars

\* A create has returned its appointment, stored, where the tutor has no
\* user id, and there is no room.
C3_Witness ==
  \E p \in Requests :
    /\ world = "noTutorUser"
    /\ ret[p].op = "create"
    /\ ret[p].status = "ok"
    /\ ret[p].id \in DOMAIN appointments
    /\ rooms = <<>>

BadReference(dto) ==
  \/ ("pet" \in DOMAIN dto /\ dto.pet \notin DOMAIN Pets)
  \/ ("provider" \in DOMAIN dto /\ dto.provider \notin DOMAIN Providers)

\* C4: a create whose pet or provider id names no record, and an update
\* whose patch carries such an id, end NotFound and change neither the
\* appointments nor the rooms.
C4_BadReferenceNotFound ==
  [][\A p \in Requests :
       ( /\ Stepped(p)
         /\ call[p].op \in {"create", "update"}
         /\ BadReference(call[p].dto) )
         => /\ appointments' = appointments
            /\ lastId' = lastId
            /\ rooms' = rooms
            /\ pc'[p] = "idle" => ret'[p].status = "NotFound"
    ]_vars

\* An update of an appointment that exists has ended NotFound for its
\* provider, and a create has ended NotFound too.
C4_Witness ==
  \E p, q \in Requests :
    /\ ret[p].op = "update"
    /\ ret[p].status = "NotFound"
    /\ ret[p].message = "Prestador nao encontrado."
    /\ ret[p].id \in DOMAIN appointments
    /\ ret[q].op = "create"
    /\ ret[q].status = "NotFound"

StatusOnly(c) ==
  \/ c.op = "update" /\ c.dto = [status |-> "cancelled"]
  \/ c.op = "updateStatus" /\ DOMAIN c.dto = {"status"}

\* C7: update(id, {status: "cancelled"}) and updateAppointmentStatus(id,
\* {status}) of an appointment that exists change its status and nothing
\* else: its other fields and every other appointment stay as they were.
C7_StatusOnlyFrame ==
  [][\A p \in Requests :
       ( /\ Stepped(p)
         /\ pc'[p] = "idle"
         /\ StatusOnly(call[p])
         /\ call[p].id \in DOMAIN appointments )
         => /\ appointments' =
                 [appointments EXCEPT ![call[p].id].status = call[p].dto.status]
            /\ ret'[p].status = "ok"
    ]_vars

\* An appointment whose price had been changed was cancelled by update: it
\* keeps the price, and the other appointment is not cancelled.
C7_Witness ==
  \E p \in Requests, i, j \in DOMAIN appointments :
    /\ ret[p].op = "update"
    /\ ret[p].status = "ok"
    /\ ret[p].id = i
    /\ appointments[i].status = "cancelled"
    /\ appointments[i].price = 150
    /\ j # i
    /\ appointments[j].status # "cancelled"

(***************************************************************************)
(* Properties of the listings.                                             *)
(***************************************************************************)
\* What a query string means, read as the decimal integer it writes.
IsIntegerLiteral(s) ==
  /\ s # Absent
  /\ s # <<>>
  /\ \A i \in DOMAIN s : IsDigit(s[i]) \/ (i = 1 /\ s[i] = "-" /\ Len(s) > 1)

RECURSIVE Power10(_)
Power10(n) == IF n = 0 THEN 1 ELSE 10 * Power10(n - 1)

RECURSIVE WeightedSum(_, _)
WeightedSum(s, i) ==
  IF i > Len(s) THEN 0
  ELSE (IF IsDigit(s[i]) THEN DigitValue(s[i]) * Power10(Len(s) - i) ELSE 0)
       + WeightedSum(s, i + 1)

LiteralValue(s) == IF s[1] = "-" THEN 0 - WeightedSum(s, 2) ELSE WeightedSum(s, 1)

\* A value of the query that is valid: left out, or an integer literal.
ValidValue(s) == s \in {Absent, <<>>} \/ IsIntegerLiteral(s)
Meant(s, default) == IF s \in {Absent, <<>>} THEN default ELSE LiteralValue(s)

Clamp(n, lo, hi) == IF n < lo THEN lo ELSE IF n > hi THEN hi ELSE n

\* C8: for valid page and limit, findAll uses page = max(page, 1), the limit
\* clamped to [1, 100] (20 when left out) and skip = (page - 1) * limit, and
\* its envelope carries that page and that limit.
C8_PageLimitSkip ==
  (page.op = "findAll" /\ ValidValue(page.q.page) /\ ValidValue(page.q.limit))
    => LET pageNo == IF Meant(page.q.page, 1) >= 1 THEN Meant(page.q.page, 1) ELSE 1
           limit == Clamp(Meant(page.q.limit, 20), 1, 100)
       IN  /\ page.envelope.page = Num(pageNo)
           /\ page.envelope.limit = Num(limit)
           /\ page.envelope.skip = (pageNo - 1) * limit
           /\ Len(page.envelope.items) <= limit
           /\ page.envelope.skip >= Cardinality(DOMAIN appointments)
                => page.envelope.items = <<>>

\* findAll has answered a query for page 11 with a limit above 100: the
\* limit is 100 and 1000 documents are skipped.
C8_Witness ==
  /\ page.op = "findAll"
  /\ page.q.page = <<"1", "1">>
  /\ page.q.limit = <<"1", "1", "1">>
  /\ page.envelope.limit = Num(100)
  /\ page.envelope.skip = 1000

\* The number a positive integer literal or a number stands for.
LimitNumber(v) == IF v.type = "number" THEN v.n ELSE LiteralValue(v.s)

PositiveLimit(s) == s \in {Absent, <<>>} \/ (IsIntegerLiteral(s) /\ LiteralValue(s) >= 1)

\* C9: every envelope findAll, findAllByTutorId and findAllByProviderUser
\* return has pages = ceil(total / limit), the empty envelopes included.
\* Stated for the queries whose limit is left out or is a positive integer,
\* where the quotient is a number.
C9_PagesIsCeilOfTotalByLimit ==
  (page.op # "none" /\ PositiveLimit(page.q.limit))
    => page.envelope.pages =
         CeilDiv(page.envelope.total, LimitNumber(page.envelope.limit))

(***************************************************************************)
(* Properties of the day's counts.                                         *)
(***************************************************************************)
\* C11: in every result of countAppointmentsForToday, confirmed <= total,
\* also when creates, updates, status updates and removes of other requests
\* take effect between the two count reads.
C11_ConfirmedAtMostTotal ==
  \A p \in Requests :
    ret[p].op = "countToday" => ret[p].confirmed <= ret[p].total

====
